---- MODULE Spec2Model ----
(***************************************************************************)
(* Model of @bb301/simple-encryption-util: the key preparer (prepareKey),  *)
(* the envelope codec (encrypt, encryptAsync, decrypt, decryptAsync) of    *)
(* src/src/lib.ts and the prompt-encrypt command line tool.                *)
(*                                                                         *)
(* Bytes are the integers 0..255 and a Buffer's contents a sequence of     *)
(* bytes.  Node's crypto primitive is modelled by what the library relies  *)
(* on: CBC chaining with PKCS#7 padding over a 16-byte block cipher; the   *)
(* AES-256 block function itself is abstracted by a key-indexed            *)
(* permutation of 16-byte blocks.                                          *)
(***************************************************************************)
EXTENDS Integers, Sequences, FiniteSets, TLC

\* ------------------------------------------------------------ constants
IV_SIZE == 16
KEY_SIZE == 32
\* block size of ALGORITHM = "aes-256-cbc"
BLOCK_SIZE == 16

\* ------------------------------------------------------------ bounds
\* plaintexts span up to MaxBlocks full cipher blocks plus one byte
MaxBlocks == 1
\* number of call sites running library calls at the same time
MaxCalls == 2
\* passwords are up to KEY_SIZE + MaxKeyExtra bytes long
MaxKeyExtra == 4
\* writes a caller makes to the buffers around one prepareKey call
MaxWrites == 2

\* ------------------------------------------------------------ bytes
Min(a, b) == IF a < b THEN a ELSE b
Max(a, b) == IF a > b THEN a ELSE b

RECURSIVE Xor(_, _)
Xor(a, b) ==
    IF a = 0 THEN b
    ELSE IF b = 0 THEN a
    ELSE ((a + b) % 2) + 2 * Xor(a \div 2, b \div 2)

\* Buffer.alloc(n).fill(0)
Zeros(n) == [i \in 1..n |-> 0]

\* Buffer.prototype.subarray(start, end) on contents: indices are clamped
subarray(buf, start, end) ==
    SubSeq(buf, Min(start, Len(buf)) + 1, Min(end, Len(buf)))

\* Buffer.concat(list)
RECURSIVE concat(_)
concat(list) ==
    IF Len(list) = 0 THEN <<>> ELSE Head(list) \o concat(Tail(list))

\* ------------------------------------------------------------ buffers and storage
\* A Buffer is a view [store, off, len] on a backing store; mem maps a store
\* to its bytes.  subarray makes a view on the same store, concat a new store.
Read(m, v) == SubSeq(m[v.store], v.off + 1, v.off + v.len)

subarrayView(v, start, end) ==
    LET s == Min(start, v.len)
        e == Max(s, Min(end, v.len))
    IN  [store |-> v.store, off |-> v.off + s, len |-> e - s]

concatNew(m, list) ==
    [mem |-> Append(m, concat(list)),
     view |-> [store |-> Len(m) + 1, off |-> 0, len |-> Len(concat(list))]]

\* mutant of prepareKeyBuf: zero-pads on the left
prepareKeyBufPadLeft(m, key) ==
    IF key.len >= KEY_SIZE
    THEN [mem |-> m, view |-> subarrayView(key, 0, KEY_SIZE)]
    ELSE concatNew(m, <<Zeros(KEY_SIZE - key.len), Read(m, key)>>)

\* prepareKey on a Buffer `key` living in memory m: the memory after the call
\* and the Buffer returned
prepareKeyBuf(m, key) ==
    IF key.len >= KEY_SIZE
    THEN [mem |-> m, view |-> subarrayView(key, 0, KEY_SIZE)]
    ELSE concatNew(m, <<Read(m, key), Zeros(KEY_SIZE - key.len)>>)

\* mutant of prepareKey: a long key is cut to its last KEY_SIZE bytes
prepareKeyTail(key) ==
    IF Len(key) >= KEY_SIZE
    THEN subarray(key, Len(key) - KEY_SIZE, Len(key))
    ELSE concat(<<key, Zeros(KEY_SIZE - Len(key))>>)

\* the bytes of prepareKey(key) for a Buffer holding `key`
prepareKey(key) ==
    LET r == prepareKeyBuf(<<key>>, [store |-> 1, off |-> 0, len |-> Len(key)])
    IN  Read(r.mem, r.view)

\* ------------------------------------------------------------ the cipher
\* Stand-in for the AES-256 block function: a permutation of blocks per key.
BlockEncrypt(k, B) ==
    [i \in 1..BLOCK_SIZE |->
        (5 * Xor(B[(i % BLOCK_SIZE) + 1], k[i]) + k[i + BLOCK_SIZE]) % 256]

BlockDecrypt(k, C) ==
    [j \in 1..BLOCK_SIZE |->
        LET i == ((j + BLOCK_SIZE - 2) % BLOCK_SIZE) + 1
        IN  Xor((205 * (C[i] + 256 - k[i + BLOCK_SIZE])) % 256, k[i])]

XorBlock(A, B) == [i \in 1..BLOCK_SIZE |-> Xor(A[i], B[i])]

\* CBC over whole blocks, chained from prev
RECURSIVE CbcEncryptBlocks(_, _, _)
CbcEncryptBlocks(k, prev, data) ==
    IF Len(data) < BLOCK_SIZE THEN <<>>
    ELSE LET C == BlockEncrypt(k, XorBlock(SubSeq(data, 1, BLOCK_SIZE), prev))
         IN  C \o CbcEncryptBlocks(k, C, SubSeq(data, BLOCK_SIZE + 1, Len(data)))

RECURSIVE CbcDecryptBlocks(_, _, _)
CbcDecryptBlocks(k, prev, data) ==
    IF Len(data) < BLOCK_SIZE THEN <<>>
    ELSE LET C == SubSeq(data, 1, BLOCK_SIZE)
         IN  XorBlock(BlockDecrypt(k, C), prev)
                \o CbcDecryptBlocks(k, C, SubSeq(data, BLOCK_SIZE + 1, Len(data)))

\* the chaining value after `data` (whole blocks) has gone through
ChainAfter(iv, data) ==
    IF Len(data) < BLOCK_SIZE THEN iv
    ELSE SubSeq(data, Len(data) - BLOCK_SIZE + 1, Len(data))

\* createCipheriv / createDecipheriv: the error thrown for the arguments, "" if none
createCipherivError(key, iv) ==
    IF Len(key) # KEY_SIZE THEN "ERR_CRYPTO_INVALID_KEYLEN"
    ELSE IF Len(iv) # IV_SIZE THEN "ERR_CRYPTO_INVALID_IV"
    ELSE ""

\* cipher.update(data): the whole blocks of data, encrypted
cipherUpdate(k, iv, data) ==
    CbcEncryptBlocks(k, iv, SubSeq(data, 1, Len(data) - (Len(data) % BLOCK_SIZE)))

\* cipher.final(): the remaining bytes, padded to one block, encrypted
cipherFinal(k, iv, data) ==
    LET full == Len(data) - (Len(data) % BLOCK_SIZE)
        rest == SubSeq(data, full + 1, Len(data))
        n    == BLOCK_SIZE - Len(rest)
    IN  CbcEncryptBlocks(k, ChainAfter(iv, cipherUpdate(k, iv, data)),
                         rest \o [i \in 1..n |-> n])

\* decipher.update(data): the whole blocks decrypted, the last one held back
\* when data ends on a block boundary
decipherUpdate(k, iv, data) ==
    LET full == Len(data) - (Len(data) % BLOCK_SIZE)
        upto == IF Len(data) % BLOCK_SIZE = 0 /\ Len(data) > 0
                THEN full - BLOCK_SIZE ELSE full
    IN  CbcDecryptBlocks(k, iv, SubSeq(data, 1, upto))

\* decipher.final(): the held block with its padding removed, or the error
decipherFinal(k, iv, data) ==
    IF Len(data) % BLOCK_SIZE # 0 \/ Len(data) = 0
    THEN [error |-> "ERR_OSSL_WRONG_FINAL_BLOCK_LENGTH", out |-> <<>>]
    ELSE LET head == SubSeq(data, 1, Len(data) - BLOCK_SIZE)
             last == CbcDecryptBlocks(k, ChainAfter(iv, head),
                                      SubSeq(data, Len(data) - BLOCK_SIZE + 1, Len(data)))
             n    == last[BLOCK_SIZE]
         IN  IF n = 0 \/ n > BLOCK_SIZE
                  \/ \E i \in (BLOCK_SIZE - n + 1)..BLOCK_SIZE : last[i] # n
             THEN [error |-> "ERR_OSSL_BAD_DECRYPT", out |-> <<>>]
             ELSE [error |-> "", out |-> SubSeq(last, 1, BLOCK_SIZE - n)]

\* ------------------------------------------------------------ results
NoResult == [status |-> "none", value |-> <<>>, error |-> ""]
Returned(v) == [status |-> "ok", value |-> v, error |-> ""]
Thrown(e) == [status |-> "throw", value |-> <<>>, error |-> e]
Resolved(v) == [status |-> "resolved", value |-> v, error |-> ""]
Rejected(e) == [status |-> "rejected", value |-> <<>>, error |-> e]

\* ------------------------------------------------------------ encrypt, decrypt
\* mutant of encrypt: the envelope without its IV prefix
encryptNoIv(data, key, iv) ==
    LET k == prepareKey(key)
    IN  concat(<<cipherUpdate(k, iv, data), cipherFinal(k, iv, data)>>)

\* mutant of encrypt: a constant IV is used, whatever randomBytes returned
encryptFixedIv(data, key, iv) ==
    LET k == prepareKey(key)
        encrypted == cipherUpdate(k, Zeros(IV_SIZE), data)
    IN  concat(<<Zeros(IV_SIZE), encrypted, cipherFinal(k, Zeros(IV_SIZE), data)>>)

\* encrypt(data, key), iv being the value crypto.randomBytes(IV_SIZE) returned
encrypt(data, key, iv) ==
    LET k == prepareKey(key)
        encrypted == cipherUpdate(k, iv, data)
    IN  concat(<<iv, encrypted, cipherFinal(k, iv, data)>>)

\* mutant of decrypt: a short IV is zero-padded instead of handed over as it is
decryptPadIv(encryptedData, key) ==
    LET iv0  == subarray(encryptedData, 0, IV_SIZE)
        iv   == iv0 \o Zeros(IV_SIZE - Len(iv0))
        data == subarray(encryptedData, IV_SIZE, Len(encryptedData))
        k    == prepareKey(key)
        fin  == decipherFinal(k, iv, data)
    IN  IF fin.error # "" THEN Thrown(fin.error)
        ELSE Returned(concat(<<decipherUpdate(k, iv, data), fin.out>>))

\* mutant of decrypt: an error of decipher.final() is swallowed
decryptSwallow(encryptedData, key) ==
    LET iv   == subarray(encryptedData, 0, IV_SIZE)
        data == subarray(encryptedData, IV_SIZE, Len(encryptedData))
        k    == prepareKey(key)
        e    == createCipherivError(k, iv)
        fin  == decipherFinal(k, iv, data)
    IN  IF e # "" THEN Thrown(e)
        ELSE IF fin.error # "" THEN Returned(<<>>)
        ELSE Returned(concat(<<decipherUpdate(k, iv, data), fin.out>>))

\* decrypt(encryptedData, key): the value returned or the error thrown
decrypt(encryptedData, key) ==
    LET iv   == subarray(encryptedData, 0, IV_SIZE)
        data == subarray(encryptedData, IV_SIZE, Len(encryptedData))
        k    == prepareKey(key)
        e    == createCipherivError(k, iv)
        fin  == decipherFinal(k, iv, data)
    IN  IF e # "" THEN Thrown(e)
        ELSE IF fin.error # "" THEN Thrown(fin.error)
        ELSE Returned(concat(<<decipherUpdate(k, iv, data), fin.out>>))

\* ------------------------------------------------------------ the Transform stream
DataEvent(chunk) == [type |-> "data", chunk |-> chunk, error |-> ""]
EndEvent == [type |-> "end", chunk |-> <<>>, error |-> ""]
ErrorEvent(e) == [type |-> "error", chunk |-> <<>>, error |-> e]

\* push(chunk): an empty chunk raises no "data" event
Pushed(chunk) == IF Len(chunk) = 0 THEN <<>> ELSE <<DataEvent(chunk)>>

\* cipher.write(data); cipher.end(): the events the cipher stream will raise
cipherStreamEvents(k, iv, data) ==
    Pushed(cipherUpdate(k, iv, data)) \o Pushed(cipherFinal(k, iv, data)) \o <<EndEvent>>

\* decipher.write(data); decipher.end(): the events the decipher stream will raise
decipherStreamEvents(k, iv, data) ==
    LET fin == decipherFinal(k, iv, data)
    IN  Pushed(decipherUpdate(k, iv, data))
          \o (IF fin.error # "" THEN <<ErrorEvent(fin.error)>>
              ELSE Pushed(fin.out) \o <<EndEvent>>)

\* ------------------------------------------------------------ inputs
Fill(n, seed) == [i \in 1..n |-> (seed + 7 * i) % 256]

PlainLens == {0, 3, BLOCK_SIZE * MaxBlocks, BLOCK_SIZE * MaxBlocks + 1}
Plaintexts == {Fill(n, 65) : n \in PlainLens}
Passwords == {<<>>, Fill(18, 100), Fill(36, 30)}
\* what a caller may hand to decrypt as the password: the passwords above, and
\* other byte strings that are one of them with zero bytes added at the end or
\* that share the first KEY_SIZE bytes with one of them
DecryptPasswords ==
    Passwords \cup {Zeros(2),
                    Fill(18, 100) \o Zeros(3),
                    Fill(18, 100) \o Zeros(KEY_SIZE - 18),
                    SubSeq(Fill(36, 30), 1, KEY_SIZE),
                    SubSeq(Fill(36, 30), 1, KEY_SIZE) \o <<1>>}
IVs == {Fill(IV_SIZE, 0), Fill(IV_SIZE, 129)}

\* what a caller hands to decrypt: the envelope it holds, the envelope with one
\* ciphertext byte changed, a prefix of it, or n zero bytes
Intact == [kind |-> "intact", off |-> 0, mask |-> 0, len |-> 0]
Tamper(o, m) == [kind |-> "tamper", off |-> o, mask |-> m, len |-> 0]
Truncate(n) == [kind |-> "truncate", off |-> 0, mask |-> 0, len |-> n]
ZeroBytes(n) == [kind |-> "zeros", off |-> 0, mask |-> 0, len |-> n]

Masks == {1, 17}
ShortLens == {0, 15}
CutLens == ShortLens \cup {IV_SIZE, IV_SIZE + 4}
TamperOffsets(env) == {0, BLOCK_SIZE - 1, Len(env) - IV_SIZE - 1}
Modes(env) ==
    {Intact} \cup {Tamper(o, m) : o \in TamperOffsets(env), m \in Masks}
             \cup {Truncate(n) : n \in CutLens} \cup {ZeroBytes(n) : n \in ShortLens}

Variant(env, mode) ==
    CASE mode.kind = "intact" -> env
      [] mode.kind = "tamper" ->
            [env EXCEPT ![IV_SIZE + mode.off + 1] = Xor(@, mode.mask)]
      [] mode.kind = "truncate" -> SubSeq(env, 1, mode.len)
      [] OTHER -> Zeros(mode.len)

\* inputs of the runs with several calls in flight: each call site has its own
\* plaintext and password
ConcPlaintext(t) == Fill(BLOCK_SIZE * MaxBlocks + 1, 65 + t)
ConcPassword(t) == Fill(KEY_SIZE - 2 + t, 30 * t)
ConcModes == {Intact, Truncate(15), Truncate(IV_SIZE + BLOCK_SIZE + 4)}

\* ------------------------------------------------------------ state
VARIABLES
    calls,      \* per call site: the library call in progress and the envelope held
    mem,        \* backing stores of the Buffers around a prepareKey call
    kbuf,       \* the Buffer handed to prepareKey
    rbuf,       \* the Buffer prepareKey returned
    kpc,        \* "off", "start", "returned" or "written"
    kin,        \* the bytes the caller put in kbuf
    kret,       \* the bytes prepareKey returned, with the writes made through rbuf
    kwrites,    \* number of writes made after the call
    cpc,        \* where prompt-encrypt's main stands
    p1,         \* main's p1: the password last typed at the first prompt
    m1,         \* main's m1: the message last typed at the first prompt
    encrypted,  \* main's encrypted
    cpath,      \* main's filePath, resolved, while the overwrite question is open
    printed,    \* what main printed as the encrypted message
    fsys,       \* the file system: per path nothing, a directory or a file
    writes,     \* the writeFileSync calls made: path and content
    loc,        \* main's loop locals: p2, confirmation and m2 of the current round
    qpc,        \* "off", "start" or "answered": an askQuestion call on its own
    qyes,       \* its `yes` argument
    qtyped,     \* what the user typed at its prompt
    qresult     \* the boolean its promise resolved to

libVars == <<calls>>
keyVars == <<mem, kbuf, rbuf, kpc, kin, kret, kwrites>>
cliVars == <<cpc, p1, m1, encrypted, cpath, printed, fsys, writes, loc>>
askVars == <<qpc, qyes, qtyped, qresult>>
vars == <<calls, mem, kbuf, rbuf, kpc, kin, kret, kwrites,
          cpc, p1, m1, encrypted, cpath, printed, fsys, writes, loc,
          qpc, qyes, qtyped, qresult>>

NoView == [store |-> 0, off |-> 0, len |-> 0]

\* no p2, no confirmation, no m2, no saveToFile, no filePath and no
\* shouldOverride yet
NoLocals ==
    [p2set |-> FALSE, p2 |-> <<>>, asked |-> FALSE, answer |-> <<>>,
     confirmation |-> FALSE, m2set |-> FALSE, m2 |-> <<>>,
     saveAsked |-> FALSE, saveAnswer |-> <<>>, saveToFile |-> FALSE,
     pathAsked |-> FALSE, filePath |-> [abs |-> FALSE, segs |-> <<>>],
     overrideAsked |-> FALSE, overrideAnswer |-> <<>>, shouldOverride |-> FALSE]

NoHeld == [has |-> FALSE, env |-> <<>>, P |-> <<>>, K |-> <<>>, iv |-> <<>>, op |-> "none"]
Idle(held) ==
    [pc |-> "idle", op |-> "none", data |-> <<>>, key |-> <<>>, iv |-> <<>>,
     mode |-> Intact, events |-> <<>>, buffers |-> <<>>, result |-> NoResult,
     held |-> held]

Encrypts == {"encrypt", "encryptAsync"}
Decrypts == {"decrypt", "decryptAsync"}

\* ------------------------------------------------------------ actions
\* const e = encrypt(P, K), randomBytes returning iv; `keep` tells whether the
\* call site still holds an envelope it got before
EncryptCall(t, P, K, iv, keep) ==
    /\ calls[t].pc = "idle"
    /\ calls' = [calls EXCEPT ![t] =
            [@ EXCEPT !.pc = "done", !.op = "encrypt", !.data = P, !.key = K,
                      !.iv = iv, !.result = Returned(encrypt(P, K, iv)),
                      !.held = IF keep THEN @ ELSE NoHeld]]

\* encryptAsync(P, K) up to its await of crypto.randomBytes
EncryptAsyncCall(t, P, K, keep) ==
    /\ calls[t].pc = "idle"
    /\ calls' = [calls EXCEPT ![t] =
            [@ EXCEPT !.pc = "awaitIv", !.op = "encryptAsync", !.data = P, !.key = K,
                      !.held = IF keep THEN @ ELSE NoHeld]]

\* mutant of encryptAsyncStart: the IV is left out of buffers
encryptAsyncStartNoIv(c, iv) ==
    LET k == prepareKey(c.key)
        e == createCipherivError(k, iv)
    IN  IF e # "" THEN [c EXCEPT !.pc = "done", !.iv = iv, !.result = Rejected(e)]
        ELSE [c EXCEPT !.pc = "stream", !.iv = iv, !.buffers = <<>>,
                       !.events = cipherStreamEvents(k, iv, c.data)]

\* encryptAsync after the IV arrived: createCipheriv, buffers = [Buffer.from(iv)],
\* the listeners, cipher.write(data), cipher.end()
encryptAsyncStart(c, iv) ==
    LET k == prepareKey(c.key)
        e == createCipherivError(k, iv)
    IN  IF e # "" THEN [c EXCEPT !.pc = "done", !.iv = iv, !.result = Rejected(e)]
        ELSE [c EXCEPT !.pc = "stream", !.iv = iv, !.buffers = <<iv>>,
                       !.events = cipherStreamEvents(k, iv, c.data)]

\* the randomBytes callback with a buffer
RandomBytesDone(t, iv) ==
    /\ calls[t].pc = "awaitIv"
    /\ calls' = [calls EXCEPT ![t] = encryptAsyncStart(@, iv)]

\* the randomBytes callback with an error: reject(error)
RandomBytesError(t) ==
    /\ calls[t].pc = "awaitIv"
    /\ calls' = [calls EXCEPT ![t] =
            [@ EXCEPT !.pc = "done", !.result = Rejected("ERR_RANDOM_BYTES")]]

\* const d = decrypt(E, K2), E made from the envelope held
DecryptCall(t, K2, mode) ==
    /\ calls[t].pc = "idle"
    /\ calls[t].held.has
    /\ LET E == Variant(calls[t].held.env, mode)
       IN  calls' = [calls EXCEPT ![t] =
                [@ EXCEPT !.pc = "done", !.op = "decrypt", !.data = E, !.key = K2,
                          !.mode = mode, !.result = decrypt(E, K2)]]

\* mutant of decryptAsyncStart: the IV is read from the first IV_SIZE - 1 bytes
\* padded with a zero byte
decryptAsyncStartShortIv(c, encryptedData, key) ==
    LET iv   == subarray(encryptedData, 0, IV_SIZE - 1) \o <<0>>
        data == subarray(encryptedData, IV_SIZE, Len(encryptedData))
        k    == prepareKey(key)
        e    == createCipherivError(k, iv)
    IN  IF e # "" THEN [c EXCEPT !.pc = "done", !.result = Thrown(e)]
        ELSE [c EXCEPT !.pc = "stream", !.buffers = <<>>,
                       !.events = decipherStreamEvents(k, iv, data)]

\* decryptAsync up to its return: createDecipheriv throws before any promise
\* exists, else buffers = [], the listeners, decipher.write(data), decipher.end()
decryptAsyncStart(c, encryptedData, key) ==
    LET iv   == subarray(encryptedData, 0, IV_SIZE)
        data == subarray(encryptedData, IV_SIZE, Len(encryptedData))
        k    == prepareKey(key)
        e    == createCipherivError(k, iv)
    IN  IF e # "" THEN [c EXCEPT !.pc = "done", !.result = Thrown(e)]
        ELSE [c EXCEPT !.pc = "stream", !.buffers = <<>>,
                       !.events = decipherStreamEvents(k, iv, data)]

DecryptAsyncCall(t, K2, mode) ==
    /\ calls[t].pc = "idle"
    /\ calls[t].held.has
    /\ LET E == Variant(calls[t].held.env, mode)
       IN  calls' = [calls EXCEPT ![t] =
                decryptAsyncStart([@ EXCEPT !.op = "decryptAsync", !.data = E,
                                            !.key = K2, !.mode = mode], E, K2)]

\* mutant of onData: buffers is one array shared by the calls in flight
onDataShared(cs, t) ==
    [u \in DOMAIN cs |->
        IF u = t
        THEN [cs[u] EXCEPT !.buffers = Append(@, Head(cs[t].events).chunk),
                           !.events = Tail(@)]
        ELSE IF cs[u].pc = "stream"
        THEN [cs[u] EXCEPT !.buffers = Append(@, Head(cs[t].events).chunk)]
        ELSE cs[u]]

\* the "data" listener of call t: buffers.push(data)
onData(cs, t) ==
    [cs EXCEPT ![t] = [@ EXCEPT !.buffers = Append(@, Head(cs[t].events).chunk),
                                !.events = Tail(@)]]

OnData(t) ==
    /\ calls[t].pc = "stream"
    /\ Head(calls[t].events).type = "data"
    /\ calls' = onData(calls, t)

\* the "end" listener: resolve(Buffer.concat(buffers))
OnEnd(t) ==
    /\ calls[t].pc = "stream"
    /\ Head(calls[t].events).type = "end"
    /\ calls' = [calls EXCEPT ![t] =
            [@ EXCEPT !.pc = "done", !.events = <<>>,
                      !.result = Resolved(concat(calls[t].buffers))]]

\* the "error" listener: reject(error)
OnError(t) ==
    /\ calls[t].pc = "stream"
    /\ Head(calls[t].events).type = "error"
    /\ calls' = [calls EXCEPT ![t] =
            [@ EXCEPT !.pc = "done", !.events = <<>>,
                      !.result = Rejected(Head(calls[t].events).error)]]

\* the caller takes the result: an envelope is kept for later calls
Return(t) ==
    /\ calls[t].pc = "done"
    /\ calls' = [calls EXCEPT ![t] =
            IF calls[t].op \in Encrypts /\ calls[t].result.status \in {"ok", "resolved"}
            THEN Idle([has |-> TRUE, env |-> calls[t].result.value,
                       P |-> calls[t].data, K |-> calls[t].key, iv |-> calls[t].iv,
                       op |-> calls[t].op])
            ELSE Idle(NoHeld)]

\* ------------------------------------------------------------ specifications
LibOff == calls = <<>>
KeyOff ==
    /\ mem = <<>> /\ kbuf = NoView /\ rbuf = NoView /\ kpc = "off"
    /\ kin = <<>> /\ kret = <<>> /\ kwrites = 0

CliOff ==
    /\ cpc = "off" /\ p1 = <<>> /\ m1 = <<>> /\ encrypted = <<>> /\ cpath = <<>>
    /\ printed = <<>> /\ fsys = <<>> /\ writes = <<>> /\ loc = NoLocals

AskOff == qpc = "off" /\ qyes = <<>> /\ qtyped = <<>> /\ qresult = FALSE

Init == calls = [t \in 1..1 |-> Idle(NoHeld)] /\ KeyOff /\ CliOff /\ AskOff

Next ==
    /\ UNCHANGED <<keyVars, cliVars, askVars>>
    /\ \E t \in DOMAIN calls :
        \/ \E P \in Plaintexts, K \in Passwords, iv \in IVs, keep \in BOOLEAN :
                EncryptCall(t, P, K, iv, keep)
        \/ \E P \in Plaintexts, K \in Passwords, keep \in BOOLEAN :
                EncryptAsyncCall(t, P, K, keep)
        \/ \E iv \in IVs : RandomBytesDone(t, iv)
        \/ RandomBytesError(t)
        \/ \E K2 \in DecryptPasswords, mode \in Modes(calls[t].held.env) :
                DecryptCall(t, K2, mode)
        \/ \E K2 \in DecryptPasswords, mode \in Modes(calls[t].held.env) :
                DecryptAsyncCall(t, K2, mode)
        \/ OnData(t)
        \/ OnEnd(t)
        \/ OnError(t)
        \/ Return(t)

\* one call site making library calls one after the other
Spec == Init /\ [][Next]_vars

InitConc == calls = [t \in 1..MaxCalls |-> Idle(NoHeld)] /\ KeyOff /\ CliOff /\ AskOff

NextConc ==
    /\ UNCHANGED <<keyVars, cliVars, askVars>>
    /\ \E t \in DOMAIN calls :
        \/ EncryptAsyncCall(t, ConcPlaintext(t), ConcPassword(t), FALSE)
        \/ \E iv \in IVs : RandomBytesDone(t, iv)
        \/ RandomBytesError(t)
        \/ \E mode \in ConcModes : DecryptAsyncCall(t, ConcPassword(t), mode)
        \/ OnData(t)
        \/ OnEnd(t)
        \/ OnError(t)
        \/ Return(t)

\* MaxCalls call sites whose asynchronous calls interleave
SpecConc == InitConc /\ [][NextConc]_vars

\* ------------------------------------------------------------ prepareKey and its buffers
KeyLens == {0, 4, KEY_SIZE - 1, KEY_SIZE, KEY_SIZE + 1, KEY_SIZE + MaxKeyExtra}
KeyOffsets == {0, 2}
WriteBytes == {255}
WritePositions(v) == {i \in {0, KEY_SIZE - 1, v.len - 1} : i >= 0 /\ i < v.len}

\* the caller holds a Buffer: a whole allocation or a subarray of one
InitKey ==
    /\ LibOff /\ CliOff /\ AskOff
    /\ \E n \in KeyLens, o \in KeyOffsets :
        /\ o <= n
        /\ mem = <<Fill(n, 10)>>
        /\ kbuf = [store |-> 1, off |-> o, len |-> n - o]
    /\ rbuf = NoView /\ kpc = "start" /\ kin = <<>> /\ kret = <<>> /\ kwrites = 0

\* const k = prepareKey(key)
PrepareKeyCall ==
    /\ kpc = "start"
    /\ LET r == prepareKeyBuf(mem, kbuf)
       IN  /\ mem' = r.mem
           /\ rbuf' = r.view
           /\ kret' = Read(r.mem, r.view)
    /\ kin' = Read(mem, kbuf)
    /\ kpc' = "returned"
    /\ UNCHANGED <<kbuf, kwrites>>

WriteAt(m, v, i, b) == [m EXCEPT ![v.store][v.off + i + 1] = b]

\* key[i] = b, after the call
WriteInput(i, b) ==
    /\ kpc \in {"returned", "written"} /\ kwrites < MaxWrites
    /\ mem' = WriteAt(mem, kbuf, i, b)
    /\ kin' = [kin EXCEPT ![i + 1] = b]
    /\ kpc' = "written" /\ kwrites' = kwrites + 1
    /\ UNCHANGED <<kbuf, rbuf, kret>>

\* k[i] = b, after the call
WriteResult(i, b) ==
    /\ kpc \in {"returned", "written"} /\ kwrites < MaxWrites
    /\ mem' = WriteAt(mem, rbuf, i, b)
    /\ kret' = [kret EXCEPT ![i + 1] = b]
    /\ kpc' = "written" /\ kwrites' = kwrites + 1
    /\ UNCHANGED <<kbuf, rbuf, kin>>

NextKey ==
    /\ UNCHANGED <<libVars, cliVars, askVars>>
    /\ \/ PrepareKeyCall
       \/ \E i \in WritePositions(kbuf), b \in WriteBytes : WriteInput(i, b)
       \/ \E i \in WritePositions(rbuf), b \in WriteBytes : WriteResult(i, b)

\* one prepareKey call and the caller's writes to its argument and its result
SpecKey == InitKey /\ [][NextKey]_vars

\* C2: prepareKey returns 32 bytes: the first 32 bytes of a password of 32
\* bytes or more, a shorter password followed by zero bytes.
C2_PrepareKey ==
    kpc = "returned"
        => /\ Len(kret) = KEY_SIZE
           /\ \A i \in 1..KEY_SIZE : kret[i] = (IF i <= Len(kin) THEN kin[i] ELSE 0)
           /\ prepareKey(kin) = kret

C2_Witness ==
    /\ kpc = "returned" /\ Len(kin) = 4 /\ kin[1] # 0
    /\ kret = kin \o Zeros(KEY_SIZE - 4)

\* C10: the Buffer prepareKey returns shares no storage with its argument: a
\* write to the one never shows in the other.
C10_ReturnsClone ==
    kpc \in {"returned", "written"}
        => /\ rbuf.store # kbuf.store
           /\ Read(mem, rbuf) = kret
           /\ Read(mem, kbuf) = kin

\* ------------------------------------------------------------ strings
\* A string is the sequence of its code points (all below 65536).
\* Buffer.from(str) and cipher.update(str): the UTF-8 bytes
RECURSIVE Utf8(_)
Utf8(str) ==
    IF Len(str) = 0 THEN <<>>
    ELSE LET c == Head(str)
         IN  (IF c < 128 THEN <<c>>
              ELSE IF c < 2048 THEN <<192 + (c \div 64), 128 + (c % 64)>>
              ELSE <<224 + (c \div 4096), 128 + ((c \div 64) % 64), 128 + (c % 64)>>)
             \o Utf8(Tail(str))

HexDigit(n) == IF n < 10 THEN 48 + n ELSE 87 + n
HexDigitUpper(n) == IF n < 10 THEN 48 + n ELSE 55 + n

\* mutant of toStringHex: upper-case digits
RECURSIVE toStringHexUpper(_)
toStringHexUpper(buf) ==
    IF Len(buf) = 0 THEN <<>>
    ELSE <<HexDigitUpper(Head(buf) \div 16), HexDigitUpper(Head(buf) % 16)>>
            \o toStringHexUpper(Tail(buf))

\* buf.toString("hex")
RECURSIVE toStringHex(_)
toStringHex(buf) ==
    IF Len(buf) = 0 THEN <<>>
    ELSE <<HexDigit(Head(buf) \div 16), HexDigit(Head(buf) % 16)>>
            \o toStringHex(Tail(buf))

\* str.toLocaleLowerCase()
toLocaleLowerCase(str) ==
    [i \in 1..Len(str) |-> IF str[i] >= 65 /\ str[i] <= 90 THEN str[i] + 32 ELSE str[i]]

\* list.join("/")
RECURSIVE join(_)
join(list) ==
    IF Len(list) = 0 THEN <<>>
    ELSE IF Len(list) = 1 THEN Head(list)
    ELSE Head(list) \o <<47>> \o join(Tail(list))

\* read({prompt, default}): an empty line gives the default
readWithDefault(typed, default) == IF Len(typed) = 0 THEN default ELSE typed

\* askQuestion(prompt, yes), the user typing `typed`
askQuestion(typed, yes) ==
    LET result == readWithDefault(typed, join(yes))
    IN  \E i \in 1..Len(yes) : toLocaleLowerCase(yes[i]) = toLocaleLowerCase(result)

\* ["yes", "y"]
DefaultYes == << <<121, 101, 115>>, <<121>> >>

\* ------------------------------------------------------------ the file system
\* A path is a sequence of names from the root; a typed path is absolute or
\* relative to the working directory.
Cwd == <<"home">>
TypedPath(abs, segs) == [abs |-> abs, segs |-> segs]
EmptyPath == TypedPath(FALSE, <<>>)

\* path.resolve(filePath)
resolve(typed) == IF typed.abs THEN typed.segs ELSE Cwd \o typed.segs
\* path.dirname(filePath)
dirname(path) == IF Len(path) = 0 THEN path ELSE SubSeq(path, 1, Len(path) - 1)

PathInputs ==
    {EmptyPath,
     TypedPath(FALSE, <<"out.txt">>),
     TypedPath(FALSE, <<"old.txt">>),
     TypedPath(FALSE, <<"dir">>),
     TypedPath(FALSE, <<"new", "out.txt">>),
     TypedPath(FALSE, <<"old.txt", "x">>),
     TypedPath(TRUE, <<"srv", "out.txt">>)}

Prefixes(path) == {SubSeq(path, 1, n) : n \in 0..Len(path)}
AllPaths == UNION {Prefixes(resolve(t)) : t \in PathInputs}

Nothing == [kind |-> "none", content |-> <<>>]
Directory == [kind |-> "dir", content |-> <<>>]
File(content) == [kind |-> "file", content |-> content]

\* "old" in the file that exists before the run
InitFs ==
    [q \in AllPaths |->
        IF q \in {<<>>, Cwd, Cwd \o <<"dir">>} THEN Directory
        ELSE IF q = Cwd \o <<"old.txt">> THEN File(<<111, 108, 100>>)
        ELSE Nothing]

\* fs.existsSync(path)
existsSync(fs, path) == fs[path].kind # "none"
\* mutant of isDirectory: a directory is taken for a file
isDirectoryNever(fs, path) == FALSE

\* fs.statSync(path).isDirectory()
isDirectory(fs, path) == fs[path].kind = "dir"

\* fs.mkdirSync(dir, {recursive: true}): fails below a file
mkdirSync(fs, dir) ==
    IF \E q \in Prefixes(dir) : fs[q].kind = "file"
    THEN [ok |-> FALSE, fs |-> fs]
    ELSE [ok |-> TRUE,
          fs |-> [q \in DOMAIN fs |-> IF q \in Prefixes(dir) THEN Directory ELSE fs[q]]]

\* fs.writeFileSync(path, content): fails on a directory or below a non-directory
writeFileSync(fs, path, content) ==
    IF fs[path].kind = "dir" \/ fs[dirname(path)].kind # "dir"
    THEN [ok |-> FALSE, fs |-> fs]
    ELSE [ok |-> TRUE, fs |-> [fs EXCEPT ![path] = File(content)]]

\* ------------------------------------------------------------ prompt-encrypt
\* p1.length < 8
ShortPassword == 8

\* "abc", "Passw0rd!"
PasswordInputs == {<<97, 98, 99>>, <<80, 97, 115, 115, 119, 48, 114, 100, 33>>}
\* "hi", "cafe" with an e acute, "seed phrase words"
MessageInputs ==
    {<<104, 105>>, <<99, 97, 102, 233>>,
     <<115, 101, 101, 100, 32, 112, 104, 114, 97, 115, 101, 32, 119, 111, 114, 100, 115>>}
\* "", "y", "YES", "no"
AnswerInputs == {<<>>, <<121>>, <<89, 69, 83>>, <<110, 111>>}

InitCli ==
    /\ LibOff /\ KeyOff /\ AskOff
    /\ cpc = "p1" /\ p1 = <<>> /\ m1 = <<>> /\ encrypted = <<>> /\ cpath = <<>>
    /\ printed = <<>> /\ fsys = InitFs /\ writes = <<>> /\ loc = NoLocals

\* p1 = await requestPassword("Enter password: ")
CliPassword1(typed) ==
    /\ cpc = "p1"
    /\ p1' = typed /\ cpc' = "p2"
    /\ loc' = NoLocals
    /\ UNCHANGED <<m1, encrypted, cpath, printed, fsys, writes>>

\* mutant of afterPassword2: no question about a short password
afterPassword2NoWarning(pw1, pw2) ==
    IF pw1 # pw2 THEN "p1" ELSE "m1"

\* where the password loop goes once p2 is typed: `continue`, the length
\* warning, or `break`
afterPassword2(pw1, pw2) ==
    IF pw1 # pw2 THEN "p1"
    ELSE IF Len(pw1) < ShortPassword THEN "pconfirm"
    ELSE "m1"

\* p2 = await requestPassword("Enter password again: ") and the checks on it
CliPassword2(typed) ==
    /\ cpc = "p2"
    /\ cpc' = afterPassword2(p1, typed)
    /\ loc' = [loc EXCEPT !.p2set = TRUE, !.p2 = typed]
    /\ UNCHANGED <<p1, m1, encrypted, cpath, printed, fsys, writes>>

\* confirmation = await askQuestion("Your password has character length ...")
CliConfirmShort(typed) ==
    /\ cpc = "pconfirm"
    /\ cpc' = (IF askQuestion(typed, DefaultYes) THEN "m1" ELSE "p1")
    /\ loc' = [loc EXCEPT !.asked = TRUE, !.answer = typed,
                          !.confirmation = askQuestion(typed, DefaultYes)]
    /\ UNCHANGED <<p1, m1, encrypted, cpath, printed, fsys, writes>>

\* m1 = await requestPassword("Enter message: ")
CliMessage1(typed) ==
    /\ cpc = "m1"
    /\ m1' = typed /\ cpc' = "m2"
    /\ loc' = [loc EXCEPT !.m2set = FALSE, !.m2 = <<>>]
    /\ UNCHANGED <<p1, encrypted, cpath, printed, fsys, writes>>

\* encrypted = encrypt(m1, Buffer.from(p1))
cliEncrypt(m, p, iv) == encrypt(Utf8(m), Utf8(p), iv)

\* m2 = await requestPassword("Enter message again: "); on a match the
\* message is encrypted and printed
CliMessage2(typed, iv) ==
    /\ cpc = "m2"
    /\ IF m1 # typed
       THEN cpc' = "m1" /\ UNCHANGED <<encrypted, printed>>
       ELSE /\ encrypted' = cliEncrypt(m1, p1, iv)
            /\ printed' = toStringHex(encrypted')
            /\ cpc' = "asksave"
    /\ loc' = [loc EXCEPT !.m2set = TRUE, !.m2 = typed]
    /\ UNCHANGED <<p1, m1, cpath, fsys, writes>>

\* saveToFile = await askQuestion("Would you like to save ...", ["yes", "y"])
CliAskSave(typed) ==
    /\ cpc = "asksave"
    /\ cpc' = (IF askQuestion(typed, DefaultYes) THEN "path" ELSE "exit")
    /\ loc' = [loc EXCEPT !.saveAsked = TRUE, !.saveAnswer = typed,
                          !.saveToFile = askQuestion(typed, DefaultYes)]
    /\ UNCHANGED <<p1, m1, encrypted, cpath, printed, fsys, writes>>

\* mutant of cliFileContent: the message is saved
cliFileContentPlain(enc, m) == m

\* the second argument of fs.writeFileSync
cliFileContent(enc, m) == toStringHex(enc)

\* the end of the save loop's body: the parent directories, then the file
cliSave(fs, path, content) ==
    LET dir == dirname(path)
        made == IF existsSync(fs, dir) THEN [ok |-> TRUE, fs |-> fs] ELSE mkdirSync(fs, dir)
    IN  IF made.ok THEN writeFileSync(made.fs, path, content) ELSE made

CliSave(path) ==
    LET content == cliFileContent(encrypted, m1)
        saved == cliSave(fsys, path, content)
    IN  /\ fsys' = saved.fs
        /\ writes' = (IF saved.ok THEN Append(writes, [path |-> path, content |-> content])
                      ELSE writes)
        /\ cpc' = (IF saved.ok THEN "exit" ELSE "crashed")

\* filePath = await requestInput("Please specify a file path ...") and the
\* iteration of the save loop up to its next prompt
CliPath(typed) ==
    /\ cpc = "path"
    /\ LET filePath == resolve(typed) IN
       IF typed.segs = <<>> /\ ~typed.abs
       THEN cpc' = "exit" /\ UNCHANGED <<cpath, fsys, writes>>
       ELSE IF existsSync(fsys, filePath)
       THEN IF isDirectory(fsys, filePath)
            THEN cpc' = "path" /\ UNCHANGED <<cpath, fsys, writes>>
            ELSE cpc' = "override" /\ cpath' = filePath /\ UNCHANGED <<fsys, writes>>
       ELSE CliSave(filePath) /\ UNCHANGED cpath
    /\ loc' = [loc EXCEPT !.pathAsked = TRUE, !.filePath = typed,
                          !.overrideAsked = FALSE, !.overrideAnswer = <<>>,
                          !.shouldOverride = FALSE]
    /\ UNCHANGED <<p1, m1, encrypted, printed>>

\* shouldOverride = await askQuestion("... already exists. Do you want to override it?")
CliOverride(typed) ==
    /\ cpc = "override"
    /\ IF askQuestion(typed, DefaultYes)
       THEN CliSave(cpath) /\ cpath' = <<>>
       ELSE cpc' = "path" /\ cpath' = <<>> /\ UNCHANGED <<fsys, writes>>
    /\ loc' = [loc EXCEPT !.overrideAsked = TRUE, !.overrideAnswer = typed,
                          !.shouldOverride = askQuestion(typed, DefaultYes)]
    /\ UNCHANGED <<p1, m1, encrypted, printed>>

NextCli ==
    /\ UNCHANGED <<libVars, keyVars, askVars>>
    /\ \/ \E typed \in PasswordInputs : CliPassword1(typed)
       \/ \E typed \in PasswordInputs : CliPassword2(typed)
       \/ \E typed \in AnswerInputs : CliConfirmShort(typed)
       \/ \E typed \in MessageInputs : CliMessage1(typed)
       \/ \E typed \in MessageInputs, iv \in IVs : CliMessage2(typed, iv)
       \/ \E typed \in AnswerInputs : CliAskSave(typed)
       \/ \E typed \in PathInputs : CliPath(typed)
       \/ \E typed \in AnswerInputs : CliOverride(typed)

\* one run of prompt-encrypt
SpecCli == InitCli /\ [][NextCli]_vars

\* C8: whatever prompt-encrypt writes to a file is the lower-case hex encoding
\* of the envelope encrypt returned for the message and the password entered;
\* neither the message nor the password is written to a file.
LowerHex == <<48, 49, 50, 51, 52, 53, 54, 55, 56, 57, 97, 98, 99, 100, 101, 102>>
IsLowerHexOf(str, buf) ==
    /\ Len(str) = 2 * Len(buf)
    /\ \A i \in 1..Len(buf) :
        /\ str[2 * i - 1] = LowerHex[(buf[i] \div 16) + 1]
        /\ str[2 * i] = LowerHex[(buf[i] % 16) + 1]

C8_OnlyHexEnvelopeWritten ==
    /\ \A i \in 1..Len(writes) :
        /\ IsLowerHexOf(writes[i].content, encrypted)
        /\ \E iv \in IVs : encrypted = encrypt(Utf8(m1), Utf8(p1), iv)
        /\ decrypt(encrypted, Utf8(p1)) = Returned(Utf8(m1))
        /\ writes[i].content \notin {m1, p1}
    /\ \A q \in DOMAIN fsys :
        (fsys[q].kind = "file" /\ fsys[q] # InitFs[q])
            => /\ IsLowerHexOf(fsys[q].content, encrypted)
               /\ fsys[q].content \notin {m1, p1}
               /\ \E i \in 1..Len(writes) : writes[i].path = q

C8_Witness ==
    /\ cpc = "exit" /\ Len(writes) = 1
    /\ writes[1].path = Cwd \o <<"old.txt">>
    /\ fsys[Cwd \o <<"old.txt">>] = File(toStringHex(encrypted))
    /\ m1 = <<99, 97, 102, 233>>

\* an answer that means yes to the questions of main, which use the default list
Affirmative(typed) == toLocaleLowerCase(typed) \in {<<121, 101, 115>>, <<121>>}

\* one step of main, seen from the prompts: what it may do to `encrypted` and
\* where it may go
C12_Step ==
    /\ encrypted' # encrypted
        => /\ cpc = "m2" /\ cpc' = "asksave"
           /\ loc'.p2set /\ loc'.p2 = p1'
           /\ Len(p1') < 8 => (loc'.asked /\ Affirmative(loc'.answer))
           /\ loc'.m2set /\ loc'.m2 = m1'
           /\ \E iv \in IVs : encrypted' = encrypt(Utf8(m1'), Utf8(p1'), iv)
    /\ (cpc = "p2" /\ loc'.p2 # p1) => (cpc' = "p1" /\ encrypted' = encrypted)
    /\ (cpc = "pconfirm" /\ ~Affirmative(loc'.answer))
        => (cpc' = "p1" /\ encrypted' = encrypted)
    /\ (cpc = "m2" /\ loc'.m2 # m1) => (cpc' = "m1" /\ encrypted' = encrypted)
    /\ (cpc' \in {"m1", "m2"})
        => (loc'.p2 = p1' /\ (Len(p1') < 8 => Affirmative(loc'.answer)))

\* C12: encrypt is called only with a password typed identically at both
\* password prompts of one round, confirmed at the length warning of that
\* round when shorter than 8 characters, and with a message typed identically
\* at both message prompts of one round; a round with a mismatch or a declined
\* warning leads to the first prompt of a new round and not to encrypt.
C12_EncryptOnlyAfterMatchingRounds == [][C12_Step]_vars

C12_Witness ==
    /\ cpc = "asksave" /\ encrypted # <<>>
    /\ Len(p1) < 8 /\ loc.p2 = p1 /\ loc.asked /\ loc.answer = <<89, 69, 83>>
    /\ loc.m2 = m1 /\ Len(m1) > BLOCK_SIZE

\* one step of the save part of main: what it may write and where it may go
C13_Step ==
    LET typed == loc'.filePath
        filePath == resolve(typed)
        noWrite == fsys' = fsys /\ writes' = writes
    IN  /\ (fsys' # fsys \/ writes' # writes)
            => /\ cpc \in {"path", "override"} /\ cpc' = "exit"
               /\ loc'.saveAsked /\ Affirmative(loc'.saveAnswer)
               /\ loc'.pathAsked /\ typed # EmptyPath
               /\ fsys[filePath].kind # "dir"
               /\ fsys[filePath].kind = "file"
                    => (loc'.overrideAsked /\ Affirmative(loc'.overrideAnswer))
               /\ fsys'[filePath].kind = "file"
               /\ writes' = Append(writes, [path |-> filePath,
                                            content |-> fsys'[filePath].content])
               /\ \A q \in DOMAIN fsys :
                    (q # filePath /\ fsys'[q] # fsys[q])
                        => /\ fsys[q] = Nothing /\ fsys'[q] = Directory
                           /\ Len(q) < Len(filePath)
                           /\ q = SubSeq(filePath, 1, Len(q))
        /\ (cpc = "asksave" /\ ~Affirmative(loc'.saveAnswer))
            => (cpc' = "exit" /\ noWrite)
        /\ (cpc = "path" /\ typed = EmptyPath) => (cpc' = "exit" /\ noWrite)
        /\ (cpc = "path" /\ typed # EmptyPath /\ fsys[filePath].kind = "dir")
            => (cpc' = "path" /\ noWrite)
        /\ (cpc = "override" /\ ~Affirmative(loc'.overrideAnswer))
            => (cpc' = "path" /\ noWrite)
        /\ cpc \notin {"path", "override"} => noWrite

\* C13: in the save step a file is written at a path only if the user agreed
\* to save, the path typed is not empty, the resolved path is not an existing
\* directory and, when it is an existing file, the user confirmed the
\* overwrite; an empty path ends the step with no write, and a directory path
\* or a declined overwrite leads back to the path prompt with no write.
C13_WriteOnlyWhenAgreed == [][C13_Step]_vars

C13_Witness ==
    /\ cpc = "exit" /\ Len(writes) = 1
    /\ loc.saveAsked /\ loc.saveAnswer = <<121>>
    /\ loc.filePath = TypedPath(FALSE, <<"old.txt">>)
    /\ loc.overrideAsked /\ loc.overrideAnswer = <<89, 69, 83>>
    /\ writes[1].path = Cwd \o <<"old.txt">>
    /\ fsys[Cwd \o <<"old.txt">>] # InitFs[Cwd \o <<"old.txt">>]

\* ------------------------------------------------------------ askQuestion on its own
\* the `yes` lists callers configure: ["yes", "y"]; ["oui"]; ["OUI", "O"]; ["Yes", "Y"]; []; ["ok"]; ["si", "oui", "yes"]; ["da", "ja"]
YesLists ==
    {<<<<121, 101, 115>>, <<121>>>>,
     <<<<111, 117, 105>>>>,
     <<<<79, 85, 73>>, <<79>>>>,
     <<<<89, 101, 115>>, <<89>>>>,
     <<>>,
     <<<<111, 107>>>>,
     <<<<115, 105>>, <<111, 117, 105>>, <<121, 101, 115>>>>,
     <<<<100, 97>>, <<106, 97>>>>}
\* what the user types: "", "y", "Y", "yes", "YES", "Yes", "no", "n", "oui",
\* "Oui", "o", "ok", "yes/y", "si", "ja", "si/oui/yes"
TypedAnswers ==
    {<<>>,
     <<121>>,
     <<89>>,
     <<121, 101, 115>>,
     <<89, 69, 83>>,
     <<89, 101, 115>>,
     <<110, 111>>,
     <<110>>,
     <<111, 117, 105>>,
     <<79, 117, 105>>,
     <<111>>,
     <<111, 107>>,
     <<121, 101, 115, 47, 121>>,
     <<115, 105>>,
     <<106, 97>>,
     <<115, 105, 47, 111, 117, 105, 47, 121, 101, 115>>}

InitAsk ==
    /\ LibOff /\ KeyOff /\ CliOff
    /\ qpc = "start" /\ qyes \in YesLists /\ qtyped = <<>> /\ qresult = FALSE

\* await askQuestion(prompt, qyes), the user typing `typed`
AskQuestionCall(typed) ==
    /\ qpc \in {"start", "answered"}
    /\ qtyped' = typed
    /\ qresult' = askQuestion(typed, qyes)
    /\ qpc' = "answered"
    /\ UNCHANGED qyes

NextAsk ==
    /\ UNCHANGED <<libVars, keyVars, cliVars>>
    /\ \E typed \in TypedAnswers : AskQuestionCall(typed)

\* askQuestion calls with a configured `yes` list
SpecAsk == InitAsk /\ [][NextAsk]_vars

\* C11: askQuestion answers true exactly when what the user typed equals,
\* letter case aside, one of the tokens of `yes`; every other input, the
\* empty one included, gives false, whatever the `yes` list.
C11_TrueIffTypedToken ==
    qpc = "answered"
        => (qresult <=> \E i \in 1..Len(qyes) :
                            toLocaleLowerCase(qyes[i]) = toLocaleLowerCase(qtyped))

\* ------------------------------------------------------------ properties of the codec
Done(c) == c.pc = "done"
Succeeded(c) == c.result.status \in {"ok", "resolved"}
IsPrefix(a, b) == Len(a) <= Len(b) /\ SubSeq(b, 1, Len(a)) = a

\* the errors of the decryption itself (wrong key, corrupted or cut ciphertext)
IntegrityErrors == {"ERR_OSSL_BAD_DECRYPT", "ERR_OSSL_WRONG_FINAL_BLOCK_LENGTH"}

\* C1: decrypting, with the same password, an envelope that encrypt or
\* encryptAsync produced returns the plaintext, whichever of decrypt and
\* decryptAsync is used.
C1_RoundTrip ==
    \A t \in DOMAIN calls :
        LET c == calls[t] IN
        (Done(c) /\ c.op \in Decrypts /\ c.mode = Intact /\ c.key = c.held.K)
            => /\ c.result.status = (IF c.op = "decrypt" THEN "ok" ELSE "resolved")
               /\ c.result.value = c.held.P

C1_Witness ==
    \E t \in DOMAIN calls :
        LET c == calls[t] IN
        /\ Done(c) /\ c.op = "decryptAsync" /\ c.mode = Intact
        /\ c.held.op = "encrypt" /\ c.key = c.held.K
        /\ Len(c.held.P) > BLOCK_SIZE /\ Len(c.key) > KEY_SIZE
        /\ c.result = Resolved(c.held.P)

\* C3: an envelope is the IV handed to the cipher followed by the ciphertext
\* of the plaintext under (prepareKey(K), IV), 16 + 16 * (|P| div 16 + 1) bytes
\* in all; decrypt takes bytes [0,16) as the IV and the rest as ciphertext.
C3_EnvelopeLayout ==
    \A t \in DOMAIN calls :
        LET c == calls[t]
            E == c.result.value
            n == BLOCK_SIZE - (Len(c.data) % BLOCK_SIZE)
        IN
        /\ (Done(c) /\ c.op \in Encrypts /\ c.iv # <<>>)
            => /\ Succeeded(c)
               /\ Len(E) = IV_SIZE + BLOCK_SIZE * ((Len(c.data) \div BLOCK_SIZE) + 1)
               /\ SubSeq(E, 1, IV_SIZE) = c.iv
               /\ CbcDecryptBlocks(prepareKey(c.key), c.iv, SubSeq(E, IV_SIZE + 1, Len(E)))
                    = c.data \o [i \in 1..n |-> n]
        /\ (Done(c) /\ c.op \in Decrypts /\ Succeeded(c))
            => /\ Len(c.data) >= IV_SIZE + BLOCK_SIZE
               /\ IsPrefix(c.result.value,
                           CbcDecryptBlocks(prepareKey(c.key), SubSeq(c.data, 1, IV_SIZE),
                                            SubSeq(c.data, IV_SIZE + 1, Len(c.data))))

C3_Witness ==
    \E t \in DOMAIN calls :
        LET c == calls[t] IN
        /\ Done(c) /\ c.op = "encryptAsync" /\ Succeeded(c)
        /\ Len(c.data) = BLOCK_SIZE * MaxBlocks
        /\ Len(c.result.value) = IV_SIZE + BLOCK_SIZE * (MaxBlocks + 1)
        /\ SubSeq(c.result.value, 1, IV_SIZE) = c.iv

\* C4: decrypt of an envelope shorter than 16 bytes throws, returns no
\* plaintext, and the error is not one a wrong key or a corrupted ciphertext
\* raises.
C4_ShortEnvelope ==
    \A t \in DOMAIN calls :
        LET c == calls[t] IN
        (Done(c) /\ c.op = "decrypt")
            => /\ Len(c.data) < IV_SIZE
                    => /\ c.result.status = "throw"
                       /\ c.result.value = <<>>
                       /\ c.result.error \notin IntegrityErrors \cup {""}
               /\ (Len(c.data) >= IV_SIZE /\ c.result.status = "throw")
                    => c.result.error \in IntegrityErrors

C4_Witness ==
    \E t \in DOMAIN calls :
        LET c == calls[t] IN
        /\ Done(c) /\ c.op = "decrypt" /\ c.data = Zeros(15)
        /\ c.result = Thrown("ERR_CRYPTO_INVALID_IV")

\* C5 as claimed: a change of one ciphertext byte always makes decrypt, with
\* the right password, throw an integrity error.
C5_TamperAlwaysDetected ==
    \A t \in DOMAIN calls :
        LET c == calls[t] IN
        (Done(c) /\ c.op = "decrypt" /\ c.mode.kind = "tamper" /\ c.key = c.held.K)
            => c.result.status = "throw" /\ c.result.error \in IntegrityErrors

\* C5 as amended: after a change of one ciphertext byte decrypt, with the
\* right password, throws an integrity error or returns a plaintext that
\* differs from the original one; it never returns the original plaintext.
C5_TamperNeverRestores ==
    \A t \in DOMAIN calls :
        LET c == calls[t] IN
        (Done(c) /\ c.op = "decrypt" /\ c.mode.kind = "tamper" /\ c.key = c.held.K)
            => \/ c.result.status = "throw" /\ c.result.error \in IntegrityErrors
               \/ c.result.status = "ok" /\ c.result.value # c.held.P

C5_Witness ==
    \E t \in DOMAIN calls :
        LET c == calls[t] IN
        /\ Done(c) /\ c.op = "decrypt" /\ c.mode.kind = "tamper" /\ c.key = c.held.K
        /\ c.data # c.held.env
        /\ c.result.status = "ok" /\ c.result.value # c.held.P

\* C6 as claimed: decryptAsync resolves to X exactly when decrypt returns X
\* and gives a rejected promise exactly when decrypt throws; encryptAsync
\* yields the envelope encrypt yields with the same IV.
C6_AsyncLikeSync ==
    \A t \in DOMAIN calls :
        LET c == calls[t]
            r == decrypt(c.data, c.key)
        IN
        /\ (Done(c) /\ c.op = "decryptAsync")
            => /\ (r.status = "ok") <=> (c.result.status = "resolved")
               /\ (r.status = "throw") <=> (c.result.status = "rejected")
               /\ c.result.value = r.value
        /\ (Done(c) /\ c.op = "encryptAsync" /\ c.iv # <<>>)
            => c.result = Resolved(encrypt(c.data, c.key, c.iv))

C9_NoInterference ==
    \A t \in DOMAIN calls :
        LET c == calls[t]
            r == decrypt(c.data, c.key)
        IN
        /\ (c.op = "encryptAsync" /\ c.iv # <<>>)
            => /\ IsPrefix(concat(c.buffers), encrypt(c.data, c.key, c.iv))
               /\ Done(c) => c.result = Resolved(encrypt(c.data, c.key, c.iv))
        /\ (c.op = "decryptAsync" /\ r.status = "ok")
            => /\ IsPrefix(concat(c.buffers), r.value)
               /\ Done(c) => c.result = Resolved(r.value)
        /\ (c.op = "decryptAsync" /\ r.status = "throw" /\ Done(c))
            => c.result.status \in {"throw", "rejected"} /\ c.result.error = r.error

C9_Witness ==
    \E t, u \in DOMAIN calls :
        /\ t # u
        /\ calls[t].data # ConcPlaintext(u) /\ calls[t].key # calls[u].key
        /\ calls[t].iv # calls[u].held.iv
        /\ calls[t].pc = "stream" /\ calls[t].op = "encryptAsync"
        /\ Len(calls[t].buffers) >= 2 /\ Len(calls[t].events) >= 2
        /\ calls[u].pc = "stream" /\ calls[u].op = "decryptAsync"
        /\ Len(calls[u].buffers) >= 1 /\ Len(calls[u].events) >= 2

\* a password cut to KEY_SIZE bytes, with zero bytes where it has none
PaddedKey(K) == [i \in 1..KEY_SIZE |-> IF i <= Len(K) THEN K[i] ELSE 0]

\* C14: the password matters only through prepareKey: when K and K' are the
\* same up to trailing zero bytes within the first 32 bytes, or agree on their
\* first 32 bytes, prepareKey gives the same key for both and
\* decrypt(encrypt(P, K), K') returns P.
C14_PasswordOnlyThroughPrepareKey ==
    \A t \in DOMAIN calls :
        LET c == calls[t] IN
        (Done(c) /\ c.op = "decrypt" /\ c.held.op = "encrypt" /\ c.mode = Intact
                 /\ PaddedKey(c.key) = PaddedKey(c.held.K))
            => /\ prepareKey(c.key) = prepareKey(c.held.K)
               /\ c.result = Returned(c.held.P)

C14_Witness ==
    \E t \in DOMAIN calls :
        LET c == calls[t] IN
        /\ Done(c) /\ c.op = "decrypt" /\ c.held.op = "encrypt" /\ c.mode = Intact
        /\ Len(c.held.K) > KEY_SIZE /\ Len(c.key) > KEY_SIZE /\ c.key # c.held.K
        /\ PaddedKey(c.key) = PaddedKey(c.held.K)
        /\ Len(c.held.P) > BLOCK_SIZE
        /\ c.result = Returned(c.held.P)

====
